---- MODULE Spec2Model ----
(***************************************************************************)
(* CLI Buddy (src/main.py): a typer application with one callback, main,   *)
(* one subcommand, info, and a timed splash screen, show_splash_window.    *)
(*                                                                         *)
(* One behaviour of the model is one process run.  The state is the        *)
(* command line, the position of the argument parser in it, the values     *)
(* the parser hands to main (no_splash, ctx.invoked_subcommand), the       *)
(* terminal (a log of what was written, and what is on screen), the wall   *)
(* clock, and the exit code.                                               *)
(*                                                                         *)
(* cli_app() is a click group (typer builds a group whenever a callback    *)
(* is registered): it parses the group's own options up to the first       *)
(* token that is not an option, resolves the subcommand name, invokes the  *)
(* callback, and only then lets the subcommand parse the rest and run.     *)
(* The options typer generates itself (--help and the completion options)  *)
(* are not declared in main.py and are not modelled.                       *)
(*                                                                         *)
(* Time is counted in whole seconds.                                       *)
(***************************************************************************)
EXTENDS Integers, Sequences, FiniteSets

VARIABLES
    entry,               \* "cli": python main.py ARGS; "call": show_splash_window(d) called directly
    argv,                \* the arguments after the program name
    pos,                 \* index in argv of the next token the parser reads
    pc,                  \* where the run is
    no_splash,           \* main's parameter no_splash
    invoked_subcommand,  \* ctx.invoked_subcommand
    calls,               \* the duration argument of every show_splash_window call so far
    out,                 \* everything written to the terminal, in order, with the time
    screen,              \* what the terminal displays: the writes since the last clear
    now,                 \* wall clock, seconds
    wakeAt,              \* when the running time.sleep may return
    exit_code            \* <<>> while running, <<c>> once the process has ended with c

vars == <<entry, argv, pos, pc, no_splash, invoked_subcommand, calls, out,
          screen, now, wakeAt, exit_code>>

----------------------------------------------------------------------------
(* Bounds *)

MaxArgs == 3         \* longest command line explored
MaxNow == 3          \* the clock runs freely up to here (and during a sleep, to its end)
MinDuration == 1     \* direct calls explore durations -MinDuration .. MaxDuration
MaxDuration == 3

----------------------------------------------------------------------------
(* Program constants *)

DefaultDuration == 2              \* duration: float = 2.0

NoSplashFlag == "--no-splash"
InfoCommand == "info"
None == "None"

\* Tokens of a command line: the declared option, the declared subcommand,
\* an option nobody declares and a word nobody declares.
Tokens == {NoSplashFlag, InfoCommand, "--bogus", "bogus"}

\* click treats a token that starts with "-" as an option.
IsOption(t) == t \in {NoSplashFlag, "--bogus"}

\* Options declared on the callback main.
GroupOptions == {NoSplashFlag}

\* Commands registered on cli_app.
Commands == {InfoCommand}

ExitOk == 0
ExitUsage == 2       \* click.UsageError.exit_code
ExitRaised == 1      \* the interpreter's exit code for an uncaught exception

----------------------------------------------------------------------------
(* The terminal *)

Event(e) == [ev |-> e, at |-> now]

\* console.clear()
Clear ==
    /\ out' = Append(out, Event("clear"))
    /\ screen' = <<>>

\* console.print(x)
Write(x) ==
    /\ out' = Append(out, Event(x))
    /\ screen' = Append(screen, x)

\* click reports a UsageError on the terminal and exits with its exit code.
UsageError ==
    /\ Write("usage")
    /\ exit_code' = <<ExitUsage>>
    /\ pc' = "exited"

----------------------------------------------------------------------------
(* Initial states *)

RECURSIVE SeqsUpTo(_, _)
SeqsUpTo(S, n) ==
    IF n = 0 THEN {<<>>}
    ELSE LET shorter == SeqsUpTo(S, n - 1)
         IN  shorter \cup {Append(s, t) : s \in shorter, t \in S}

Start ==
    /\ pos = 1
    /\ no_splash = FALSE          \* typer.Option(False, "--no-splash")
    /\ invoked_subcommand = None
    /\ calls = <<>>
    /\ out = <<>>
    /\ screen = <<"shell">>       \* whatever the terminal showed before the run
    /\ now \in 0 .. MaxNow
    /\ wakeAt = 0
    /\ exit_code = <<>>

\* python main.py ARGS: line 41-42, cli_app()
Init ==
    /\ entry = "cli"
    /\ argv \in SeqsUpTo(Tokens, MaxArgs)
    /\ pc = "parse_args"
    /\ Start

\* show_splash_window(d) called on its own
InitCall ==
    /\ entry = "call"
    /\ argv = <<>>
    /\ pc = "call"
    /\ Start

----------------------------------------------------------------------------
(* cli_app(): click's group dispatch around main and info *)

\* Mutant of GroupInvoke: the callback runs before the command name is
\* resolved, so an unknown name is only rejected afterwards.
GroupInvoke_Unresolved ==
    /\ pc = "invoke"
    /\ IF pos > Len(argv)
       THEN UNCHANGED <<pos, invoked_subcommand>>
       ELSE /\ invoked_subcommand' = argv[pos]
            /\ pos' = IF argv[pos] \in Commands THEN pos + 1 ELSE pos
    /\ pc' = "main"
    /\ UNCHANGED <<entry, argv, no_splash, calls, out, screen, now, wakeAt, exit_code>>

\* The group's parser reads one token.  It stops at the end of the line and
\* at the first token that is not an option (a group does not allow options
\* after that); --no-splash sets the flag; any other option is an error.
GroupParseArgs ==
    /\ pc = "parse_args"
    /\ IF pos > Len(argv) \/ ~IsOption(argv[pos])
       THEN /\ pc' = "invoke"
            /\ UNCHANGED <<pos, no_splash, out, screen, exit_code>>
       ELSE IF argv[pos] \in GroupOptions
       THEN /\ no_splash' = TRUE
            /\ pos' = pos + 1
            /\ UNCHANGED <<pc, out, screen, exit_code>>
       ELSE /\ UsageError
            /\ UNCHANGED <<pos, no_splash>>
    /\ UNCHANGED <<entry, argv, invoked_subcommand, calls, now, wakeAt>>

\* Group.invoke: without a remaining token the callback runs alone
\* (invoke_without_command=True); otherwise the token is resolved as a
\* command name first and the callback runs with ctx.invoked_subcommand set.
GroupInvoke ==
    /\ pc = "invoke"
    /\ IF pos > Len(argv)
       THEN /\ pc' = "main"
            /\ UNCHANGED <<pos, invoked_subcommand, out, screen, exit_code>>
       ELSE IF argv[pos] \in Commands
       THEN /\ invoked_subcommand' = argv[pos]
            /\ pos' = pos + 1
            /\ pc' = "main"
            /\ UNCHANGED <<out, screen, exit_code>>
       ELSE /\ UsageError
            /\ UNCHANGED <<pos, invoked_subcommand>>
    /\ UNCHANGED <<entry, argv, no_splash, calls, now, wakeAt>>

\* Mutant of ShouldSplash: the flag alone decides.
ShouldSplash_FlagOnly == ~no_splash

\* Mutant of ShouldSplash: the splash is shown unconditionally.
ShouldSplash_Always == TRUE

\* line 38: if ctx.invoked_subcommand is None or not no_splash
ShouldSplash == invoked_subcommand = None \/ ~no_splash

\* Mutant of main: the flag is passed on as the duration.
main_PassesFlag ==
    /\ pc = "main"
    /\ calls' = Append(calls, IF no_splash THEN 1 ELSE 0)
    /\ pc' = "clear1"
    /\ UNCHANGED <<entry, argv, pos, no_splash, invoked_subcommand, out, screen,
                   now, wakeAt, exit_code>>

\* lines 35-39: the callback
main ==
    /\ pc = "main"
    /\ IF ShouldSplash
       THEN /\ calls' = Append(calls, DefaultDuration)   \* show_splash_window()
            /\ pc' = "clear1"
       ELSE /\ pc' = "main_return"
            /\ UNCHANGED calls
    /\ UNCHANGED <<entry, argv, pos, no_splash, invoked_subcommand, out, screen,
                   now, wakeAt, exit_code>>

\* After the callback: with no subcommand the run is over; otherwise the
\* subcommand parses what is left of the line.
MainReturn ==
    /\ pc = "main_return"
    /\ IF invoked_subcommand = None
       THEN /\ pc' = "exited"
            /\ exit_code' = <<ExitOk>>
       ELSE /\ pc' = "sub_parse_args"
            /\ UNCHANGED exit_code
    /\ UNCHANGED <<entry, argv, pos, no_splash, invoked_subcommand, calls, out,
                   screen, now, wakeAt>>

\* Mutant of SubParseArgs: info swallows whatever is left on the line.
SubParseArgs_Lenient ==
    /\ pc = "sub_parse_args"
    /\ pc' = "info"
    /\ UNCHANGED <<entry, argv, pos, no_splash, invoked_subcommand, calls, out,
                   screen, now, wakeAt, exit_code>>

\* info's parser: info declares no option and no argument, so any token
\* left is an error (no such option, or an unexpected extra argument).
SubParseArgs ==
    /\ pc = "sub_parse_args"
    /\ IF pos > Len(argv)
       THEN /\ pc' = "info"
            /\ UNCHANGED <<out, screen, exit_code>>
       ELSE /\ UsageError
    /\ UNCHANGED <<entry, argv, pos, no_splash, invoked_subcommand, calls, now, wakeAt>>

\* Mutant of info: the handler clears the terminal before it prints.
info_ClearsFirst ==
    /\ pc = "info"
    /\ out' = out \o <<Event("clear"), Event("Info command")>>
    /\ screen' = <<"Info command">>
    /\ pc' = "info_return"
    /\ UNCHANGED <<entry, argv, pos, no_splash, invoked_subcommand, calls, now,
                   wakeAt, exit_code>>

\* Mutant of info: the handler prints and then shows the splash itself.
info_ShowsSplash ==
    /\ pc = "info"
    /\ Write("Info command")
    /\ calls' = Append(calls, DefaultDuration)
    /\ pc' = "clear1"
    /\ UNCHANGED <<entry, argv, pos, no_splash, invoked_subcommand, now, wakeAt,
                   exit_code>>

\* lines 30-32
info ==
    /\ pc = "info"
    /\ Write("Info command")
    /\ pc' = "info_return"
    /\ UNCHANGED <<entry, argv, pos, no_splash, invoked_subcommand, calls, now,
                   wakeAt, exit_code>>

\* Mutant of InfoReturn: the subcommand's return is turned into a failure.
InfoReturn_ExitOne ==
    /\ pc = "info_return"
    /\ pc' = "exited"
    /\ exit_code' = <<ExitRaised>>
    /\ UNCHANGED <<entry, argv, pos, no_splash, invoked_subcommand, calls, out,
                   screen, now, wakeAt>>

\* The subcommand returned: standalone mode exits with 0.
InfoReturn ==
    /\ pc = "info_return"
    /\ pc' = "exited"
    /\ exit_code' = <<ExitOk>>
    /\ UNCHANGED <<entry, argv, pos, no_splash, invoked_subcommand, calls, out,
                   screen, now, wakeAt>>

----------------------------------------------------------------------------
(* show_splash_window, lines 11-28 *)

\* The duration argument of the call in progress.
duration == calls[Len(calls)]

\* A caller other than main passes any duration: the function checks nothing.
Call ==
    /\ pc = "call"
    /\ \E d \in (0 - MinDuration) .. MaxDuration : calls' = Append(calls, d)
    /\ pc' = "clear1"
    /\ UNCHANGED <<entry, argv, pos, no_splash, invoked_subcommand, out, screen,
                   now, wakeAt, exit_code>>

\* line 12: console.clear()
SplashClear ==
    /\ pc = "clear1"
    /\ Clear
    /\ pc' = "print"
    /\ UNCHANGED <<entry, argv, pos, no_splash, invoked_subcommand, calls, now,
                   wakeAt, exit_code>>

\* lines 14-26: build the panel, console.print(centered)
SplashPrint ==
    /\ pc = "print"
    /\ Write("panel")
    /\ pc' = "sleep"
    /\ UNCHANGED <<entry, argv, pos, no_splash, invoked_subcommand, calls, now,
                   wakeAt, exit_code>>

\* line 27: time.sleep(duration) is entered.  A negative length raises
\* ValueError, which nothing catches: traceback, exit code 1.
SleepBegin ==
    /\ pc = "sleep"
    /\ IF duration < 0
       THEN /\ Write("traceback")
            /\ exit_code' = <<ExitRaised>>
            /\ pc' = "exited"
            /\ UNCHANGED wakeAt
       ELSE /\ wakeAt' = now + duration
            /\ pc' = "sleeping"
            /\ UNCHANGED <<out, screen, exit_code>>
    /\ UNCHANGED <<entry, argv, pos, no_splash, invoked_subcommand, calls, now>>

\* Mutant of SleepEnd: the sleep returns at once.
SleepEnd_Early ==
    /\ pc = "sleeping"
    /\ pc' = "clear2"
    /\ UNCHANGED <<entry, argv, pos, no_splash, invoked_subcommand, calls, out,
                   screen, now, wakeAt, exit_code>>

\* time.sleep returns once the length has elapsed, possibly later.
SleepEnd ==
    /\ pc = "sleeping"
    /\ now >= wakeAt
    /\ pc' = "clear2"
    /\ UNCHANGED <<entry, argv, pos, no_splash, invoked_subcommand, calls, out,
                   screen, now, wakeAt, exit_code>>

\* Mutant of SplashClearAgain: the final clear is missing.
SplashClearAgain_Skipped ==
    /\ pc = "clear2"
    /\ pc' = "splash_return"
    /\ UNCHANGED <<entry, argv, pos, no_splash, invoked_subcommand, calls, out,
                   screen, now, wakeAt, exit_code>>

\* line 28: console.clear()
SplashClearAgain ==
    /\ pc = "clear2"
    /\ Clear
    /\ pc' = "splash_return"
    /\ UNCHANGED <<entry, argv, pos, no_splash, invoked_subcommand, calls, now,
                   wakeAt, exit_code>>

\* show_splash_window returns: to main (line 39, the end of the callback), or
\* to the direct caller, whose script then ends.
SplashReturn ==
    /\ pc = "splash_return"
    /\ IF entry = "cli"
       THEN /\ pc' = "main_return"
            /\ UNCHANGED exit_code
       ELSE /\ pc' = "exited"
            /\ exit_code' = <<ExitOk>>
    /\ UNCHANGED <<entry, argv, pos, no_splash, invoked_subcommand, calls, out,
                   screen, now, wakeAt>>

\* One second passes.  The process is single-threaded: nothing else happens
\* while it sleeps, and the sleep always ends.
Tick ==
    /\ pc # "exited"
    /\ now < MaxNow \/ (pc = "sleeping" /\ now < wakeAt)
    /\ now' = now + 1
    /\ UNCHANGED <<entry, argv, pos, pc, no_splash, invoked_subcommand, calls,
                   out, screen, wakeAt, exit_code>>

show_splash_window ==
    \/ SplashClear
    \/ SplashPrint
    \/ SleepBegin
    \/ SleepEnd
    \/ SplashClearAgain
    \/ SplashReturn

----------------------------------------------------------------------------
(* Specifications *)

\* One process run of python main.py ARGS.
Next ==
    \/ GroupParseArgs
    \/ GroupInvoke
    \/ main
    \/ show_splash_window
    \/ MainReturn
    \/ SubParseArgs
    \/ info
    \/ InfoReturn
    \/ Tick

Spec == Init /\ [][Next]_vars

\* The interpreter keeps executing the one thread until the process exits.
FairSpec == Spec /\ WF_vars(Next)

\* One direct call show_splash_window(d).
NextCall ==
    \/ Call
    \/ show_splash_window
    \/ Tick

SpecCall == InitCall /\ [][NextCall]_vars

----------------------------------------------------------------------------
(* Reading a run: the command line as the user typed it, the terminal log *)

\* --no-splash appears on the command line.
FlagSupplied == \E i \in DOMAIN argv : argv[i] = NoSplashFlag

\* info appears on the command line.
SubRequested == \E i \in DOMAIN argv : argv[i] = InfoCommand

\* The command lines the program accepts: any number of --no-splash, then
\* at most one info, and nothing else.
WellFormed ==
    \A i \in DOMAIN argv :
        \/ argv[i] = NoSplashFlag /\ \A j \in 1 .. i - 1 : argv[j] = NoSplashFlag
        \/ argv[i] = InfoCommand /\ i = Len(argv)
                                 /\ \A j \in 1 .. i - 1 : argv[j] = NoSplashFlag

\* The group's own part of the line is accepted and names info: some info
\* is preceded by nothing but --no-splash.
GroupAccepted ==
    \E k \in DOMAIN argv :
        argv[k] = InfoCommand /\ \A j \in 1 .. k - 1 : argv[j] = NoSplashFlag

Count(e) == Cardinality({i \in DOMAIN out : out[i].ev = e})

Evs == [i \in DOMAIN out |-> out[i].ev]

InfoLine == "Info command"

SplashRan == calls # <<>>

Exited(c) == pc = "exited" /\ exit_code = <<c>>

\* The callback main has taken its decision (line 38).
MainDecided == pc \notin {"parse_args", "invoke", "main"}

----------------------------------------------------------------------------
(* Claims *)

C2_InfoAfterSplash ==
    argv = <<InfoCommand>> =>
        /\ \A i \in DOMAIN out :
               out[i].ev = InfoLine =>
                   /\ i = 4
                   /\ SubSeq(Evs, 1, 3) = <<"clear", "panel", "clear">>
                   /\ \A j \in DOMAIN out : j > i => out[j].ev # "clear"
        /\ pc = "exited" =>
               /\ Count(InfoLine) = 1
               /\ screen = <<InfoLine>>
               /\ exit_code = <<ExitOk>>

\* C2 witness: the run "info" has ended with the line on the screen.
C2_Witness ==
    /\ argv = <<InfoCommand>>
    /\ pc = "exited"
    /\ Evs = <<"clear", "panel", "clear", InfoLine>>

\* C3 as stated: invoked with info and --no-splash, in whichever order, the
\* splash is never called and info prints its line exactly once.
C3_Original ==
    argv \in {<<NoSplashFlag, InfoCommand>>, <<InfoCommand, NoSplashFlag>>} =>
        /\ ~SplashRan
        /\ Count("clear") = 0 /\ Count("panel") = 0
        /\ pc = "exited" => Count(InfoLine) = 1

\* C3 amended: invoked with --no-splash before info (the accepted order),
\* the splash is never called: no clear, no panel, no sleep; and info prints
\* its line exactly once and the run exits with 0.
C3_FlagThenInfo ==
    (WellFormed /\ SubRequested /\ FlagSupplied) =>
        /\ ~SplashRan
        /\ Count("clear") = 0 /\ Count("panel") = 0
        /\ pc \notin {"clear1", "print", "sleep", "sleeping", "clear2", "splash_return"}
        /\ wakeAt = 0
        /\ pc = "exited" => Evs = <<InfoLine>> /\ exit_code = <<ExitOk>>

\* C3 witness: "--no-splash info" has ended with only the info line written.
C3_Witness ==
    /\ argv = <<NoSplashFlag, InfoCommand>>
    /\ Exited(ExitOk)
    /\ Evs = <<InfoLine>>
    /\ screen = <<"shell", InfoLine>>

\* C4: a call show_splash_window(d) with d > 0 writes clear, panel, clear in
\* this order and nothing else; the second clear comes at least d seconds
\* after the panel; the call does not return before that; on return the
\* screen is cleared.
C4_SplashSteps ==
    (SplashRan /\ calls[1] > 0) =>
        /\ \E n \in 0 .. 3 : Evs = SubSeq(<<"clear", "panel", "clear">>, 1, n)
        /\ Len(out) = 3 => out[3].at >= out[2].at + calls[1]
        /\ pc \in {"clear2", "splash_return", "exited"} => now >= out[2].at + calls[1]
        /\ pc \in {"splash_return", "exited"} => Len(out) = 3 /\ screen = <<>>
        /\ pc = "exited" => exit_code = <<ExitOk>>

\* C4 witness: a call with the longest duration has returned, the second
\* clear exactly d seconds after the panel.
C4_Witness ==
    /\ calls = <<MaxDuration>>
    /\ Exited(ExitOk)
    /\ Len(out) = 3
    /\ out[3].at = out[2].at + MaxDuration

\* C5: the step of the info handler appends its one line to the terminal and
\* changes nothing else (no clear, no call of the splash, no sleep, the
\* decision inputs untouched); and show_splash_window is only ever called
\* by main.
C5_InfoFrame ==
    [][ /\ (pc = "info" /\ pc' # "info") =>
              /\ out' = Append(out, [ev |-> InfoLine, at |-> now])
              /\ screen' = Append(screen, InfoLine)
              /\ UNCHANGED <<no_splash, invoked_subcommand, calls, now, wakeAt,
                             argv, pos, exit_code>>
        /\ calls' # calls => pc = "main"
      ]_vars

\* C5 witness: info has acted after a splash that main started.
C5_Witness ==
    /\ pc = "info_return"
    /\ Evs = <<"clear", "panel", "clear", InfoLine>>

\* C6: a command line that is not accepted (an unknown option, an unknown
\* subcommand, or anything after info) never runs the info handler and ends
\* in exactly one usage error, the last thing written, with a non-zero exit
\* code.
C6_UsageError ==
    ~WellFormed =>
        /\ Count(InfoLine) = 0
        /\ pc \notin {"info", "info_return"}
        /\ pc = "exited" =>
               /\ exit_code = <<ExitUsage>> /\ ExitUsage # 0
               /\ Count("usage") = 1
               /\ out[Len(out)].ev = "usage"

\* C6 witness: "info --bogus" has ended in the usage error.
C6_Witness ==
    /\ argv = <<InfoCommand, "--bogus">>
    /\ Exited(ExitUsage)

C8_SplashOnceAndFirst ==
    /\ Len(calls) <= 1
    /\ Count("panel") <= 1
    /\ Count("clear") <= 2
    /\ (SplashRan /\ out # <<>>) => out[1].ev = "clear"
    /\ Count("panel") > 0 => SplashRan

\* C8 witness: a splash followed by other output.
C8_Witness ==
    /\ Len(calls) = 1
    /\ Len(out) = 4
    /\ out[1].ev = "clear"
    /\ out[4].ev = "usage"

\* C9: whatever the command line, every call of show_splash_window made in
\* a run of the program has the default duration, which is positive; the
\* sleep never raises.
C9_DefaultDuration ==
    /\ \A i \in DOMAIN calls : calls[i] = DefaultDuration /\ calls[i] > 0
    /\ exit_code # <<ExitRaised>>
    /\ pc \in {"sleeping", "clear2"} => wakeAt - DefaultDuration \in 0 .. now

\* C9 witness: a splash is sleeping on a command line with the flag.
C9_Witness ==
    /\ FlagSupplied
    /\ pc = "sleeping"
    /\ calls = <<DefaultDuration>>

\* C10 as stated: a run that ends in a usage error on an unknown option
\* (of the group or of info) or on an unknown subcommand has not presented
\* the splash.
C10_Original ==
    (/\ Exited(ExitUsage)
     /\ \/ IsOption(argv[pos])                                   \* an unknown option
        \/ argv[pos] \notin Commands /\ invoked_subcommand = None \* an unknown subcommand
    ) => ~SplashRan

\* C10 amended: a run that ends in a usage error has presented the splash
\* exactly when the group's own part of the line was accepted with info as
\* the subcommand and without --no-splash; so an unknown global option or an
\* unknown subcommand fails before any splash, and a token that info rejects
\* fails after main has run.
C10_SplashBeforeSubcommandError ==
    Exited(ExitUsage) =>
        /\ SplashRan <=> (GroupAccepted /\ argv[1] # NoSplashFlag)
        /\ ~GroupAccepted => Evs = <<"usage">>

\* C10 witness: "info --bogus" ends in a usage error after the whole splash.
C10_Witness ==
    /\ argv = <<InfoCommand, "--bogus">>
    /\ Exited(ExitUsage)
    /\ Evs = <<"clear", "panel", "clear", "usage">>

====
